---- MODULE Spec2Model ----
(***************************************************************************)
(* A model of vec.h, the header-prepended dynamic array.                   *)
(*                                                                         *)
(* One vector variable `v` of the caller is modelled together with the     *)
(* heap block it points into: the two header words (size, capacity) and    *)
(* the element slots that follow them.  The allocator (VEC_REALLOC,        *)
(* VEC_FREE) is modelled as an instrumented allocator that knows which     *)
(* addresses are live.                                                     *)
(***************************************************************************)
EXTENDS Naturals, Integers, FiniteSets, Sequences, TLC

\* ----------------------------------------------------------------- bounds
MaxLen     == 3     \* push / insert are not issued beyond this length
MaxInitCap == 3     \* largest cap handed to vec_init
NumAddr    == 2     \* distinct block addresses the allocator can return
MaxPush    == 5     \* pushes counted by the push/pop harness
WordBits   == 4     \* width of size_t in the model of the doubling loop

NULL   == 0
Addr   == 1..NumAddr
Values == {1, 2}

VARIABLES
  v,        \* the caller's vector variable: NULL or the address of a block
  hlen,     \* header word [-2] of the block v points into (size)
  hcap,     \* header word [-1] of the block v points into (capacity)
  data,     \* the element slots of the block: [0..slots-1 -> Values]
  live,     \* allocator: addresses of the blocks currently allocated
  badfree,  \* allocator: a block that was not live was freed / reallocated
  aborted,  \* VEC_ASSERT(newptr) failed: the process has stopped
  released, \* vec_free(v) has been executed by the caller
  oob,      \* an element access fell outside the slots of the live block
  op,       \* observer: name of the last operation executed
  argi,     \* observer: its index / capacity argument (0 when none)
  argx,     \* observer: its value argument (0 when none)
  call,     \* observer: allocator primitive the last operation called
  mark,     \* observer: <<capacity, handle>> at the last vec_clear, while
            \*           only pushes followed it; <<>> otherwise
  npush,    \* test harness: pushes counted so far
  npop,     \* test harness: pops counted so far
  nrealloc, \* test harness: VEC_REALLOC calls counted so far
  lpc,      \* vec_new_cap loop: position ("idle" outside the loop model)
  lcur,     \* vec_new_cap loop: the argument cur
  lreq,     \* vec_new_cap loop: the argument req
  lout      \* vec_new_cap loop: *(out)

prog  == <<v, hlen, hcap, data, live, badfree, aborted, released, oob>>
obs   == <<op, argi, argx, call, mark>>
count == <<npush, npop, nrealloc>>
loop  == <<lpc, lcur, lreq, lout>>
vars  == <<v, hlen, hcap, data, live, badfree, aborted, released, oob,
           op, argi, argx, call, mark, npush, npop, nrealloc,
           lpc, lcur, lreq, lout>>

Min(a, b) == IF a <= b THEN a ELSE b

\* the vector as a value: handle, the two header words, the slots
Vec == [p |-> v, len |-> hlen, cap |-> hcap, data |-> data]

NoSlots == [i \in {} |-> 0]

\* #define vec_len(v)  ((v) ? ((size_t*)(v))[-2] : (size_t)0)
vec_len(b) == IF b.p # NULL THEN b.len ELSE 0

\* #define vec_cap(v)  ((v) ? ((size_t*)(v))[-1] : (size_t)0)
vec_cap(b) == IF b.p # NULL THEN b.cap ELSE 0

\* number of slots of the block b.p points into
Slots(b) == Cardinality(DOMAIN b.data)

\* mutant: the slots from the new length on are scrubbed
vec_set_len_scrub(b, n) ==
  [b EXCEPT !.len = n,
            !.data = [j \in DOMAIN b.data |-> IF j >= n THEN 1 ELSE b.data[j]]]

\* mutant: the length is written to header word [-1]
vec_set_len_word1(b, n) == [b EXCEPT !.cap = n]

\* #define vec_set_len(v, len)  ((size_t*)(v))[-2] = (len)
vec_set_len(b, n) == [b EXCEPT !.len = n]

\* #define vec_set_cap(v, cap)  ((size_t*)(v))[-1] = (cap)
vec_set_cap(b, n) == [b EXCEPT !.cap = n]

\* for ((*(out)=(cur ? cur : 1)) ; *(out) < req ; *(out) *= 2) {}
RECURSIVE Doubling(_, _)
Doubling(out, req) == IF out < req THEN Doubling(out * 2, req) ELSE out

\* mutant: the exact-fit rule of VEC_GROW_RATE 1
vec_new_cap_exact(cur, req) == req

vec_new_cap(cur, req) == Doubling(IF cur # 0 THEN cur ELSE 1, req)

\* VEC_REALLOC(oldptr, size): the addresses it may return on success: the
\* block grown or shrunk in place, or a block that is not live
ReallocPtrs(oldptr) == {a \in Addr : a = oldptr \/ a \notin live}

\* mutant: a fresh block whose contents are not copied from the old one
ReallocDataFresh(b, n) == [0..(n - 1) -> Values]

\* contents of the block after a successful VEC_REALLOC to n slots: the
\* first min(old, new) slots are kept, the others hold indeterminate values
ReallocData(b, n) ==
  LET keep == Min(Slots(b), n)
  IN {[i \in 0..(n - 1) |-> IF i < keep THEN b.data[i] ELSE g[i]] :
        g \in [keep..(n - 1) -> Values]}

\* mutant: the two header words are written the wrong way round
vec_realloc_swapped(b, vcap, vlen) ==
  {[ok |-> FALSE, b |-> b]}
  \cup
  {[ok |-> TRUE, b |-> [p |-> a, len |-> vcap, cap |-> vlen, data |-> d]] :
      a \in ReallocPtrs(b.p), d \in ReallocData(b, vcap)}

\* mutant: VEC_ASSERT placed after the assignment of v, so that a failed
\* VEC_REALLOC leaves the caller's variable overwritten
vec_realloc_late_assert(b, vcap, vlen) ==
  {[ok |-> FALSE, b |-> [b EXCEPT !.p = NULL]]}
  \cup
  {[ok |-> TRUE, b |-> [p |-> a, len |-> vlen, cap |-> vcap, data |-> d]] :
      a \in ReallocPtrs(b.p), d \in ReallocData(b, vcap)}

\* #define vec_realloc(v, cap, len): the outcomes of the macro.
\*   ok = FALSE : VEC_REALLOC returned 0 and VEC_ASSERT stopped the process
\*   ok = TRUE  : v repointed, both header words written
vec_realloc(b, vcap, vlen) ==
  {[ok |-> FALSE, b |-> b]}
  \cup
  {[ok |-> TRUE,
    b  |-> vec_set_cap(vec_set_len([p |-> a, len |-> b.len, cap |-> b.cap,
                                    data |-> d], vlen), vcap)] :
      a \in ReallocPtrs(b.p), d \in ReallocData(b, vcap)}

\* mutant: the doubling rule applied to the null handle as well
GrowCapUniform(b, reqcap) ==
  IF vec_cap(b) < reqcap
    THEN vec_new_cap(vec_cap(b), reqcap)
    ELSE reqcap

\* newcap as computed by vec_grow before its vec_realloc
GrowCap(b, reqcap) ==
  IF b.p # NULL /\ vec_cap(b) < reqcap
    THEN vec_new_cap(vec_cap(b), reqcap)
    ELSE reqcap

\* #define vec_grow(v, cap)
vec_grow(b, reqcap) == vec_realloc(b, GrowCap(b, reqcap), vec_len(b))

\* mutant: the store goes to the slot after i
StoreNext(b, i, x) ==
  IF (i + 1) \in DOMAIN b.data THEN [b EXCEPT !.data[i + 1] = x] ELSE b

\* (v)[i] = (x): a store into slot i; outside the block nothing of the
\* block changes
Store(b, i, x) ==
  IF i \in DOMAIN b.data THEN [b EXCEPT !.data[i] = x] ELSE b

InBlock(b, i) == b.p # NULL /\ i \in DOMAIN b.data

\* mutant: a copy loop running forward, which smears the first source slot
\* over the destination when the destination lies above the source
MemCpyForward(b, dst, src, n) ==
  LET D      == DOMAIN b.data
      InDst  == {j \in D : dst <= j /\ j < dst + n}
      From(j) == IF dst > src /\ dst < src + n THEN src ELSE j - dst + src
      Blind  == {j \in InDst : From(j) \notin D}
  IN {[b EXCEPT !.data =
          [j \in D |-> IF j \in Blind THEN g[j]
                       ELSE IF j \in InDst THEN b.data[From(j)]
                       ELSE b.data[j]]] :
        g \in [Blind -> Values]}

\* mutant: a copy loop running backward, which smears the last source slot
\* over the destination when the destination lies below the source
MemCpyBackward(b, dst, src, n) ==
  LET D      == DOMAIN b.data
      InDst  == {j \in D : dst <= j /\ j < dst + n}
      From(j) == IF dst < src /\ src < dst + n THEN src + n - 1
                 ELSE j - dst + src
      Blind  == {j \in InDst : From(j) \notin D}
  IN {[b EXCEPT !.data =
          [j \in D |-> IF j \in Blind THEN g[j]
                       ELSE IF j \in InDst THEN b.data[From(j)]
                       ELSE b.data[j]]] :
        g \in [Blind -> Values]}

\* memmove((v)+dst, (v)+src, n * sizeof(*(v))): the vectors it can leave.
\* Slots dst..dst+n-1 receive the old contents of src..src+n-1 (the ranges
\* may overlap); a source slot outside the block reads an indeterminate
\* value, a destination slot outside the block is not part of the block.
MemMove(b, dst, src, n) ==
  LET D      == DOMAIN b.data
      InDst  == {j \in D : dst <= j /\ j < dst + n}
      Blind  == {j \in InDst : (j - dst + src) \notin D}
  IN {[b EXCEPT !.data =
          [j \in D |-> IF j \in Blind THEN g[j]
                       ELSE IF j \in InDst THEN b.data[j - dst + src]
                       ELSE b.data[j]]] :
        g \in [Blind -> Values]}

\* the memmove touched a slot outside the block
MoveOutside(b, dst, src, n) ==
  n > 0 /\ (~InBlock(b, dst + n - 1) \/ ~InBlock(b, src + n - 1))

\* a null pointer argument p of vec_insp / vec_delp
NullPtr == NULL

\* element pointers are addresses: the elements of the block at address a
\* lie at a * Stride, a * Stride + 1, ...
Stride == MaxLen + 1

\* (v) + k: the address of element k
ElemAddr(b, k) == b.p * Stride + k

\* mutant: the index of the element after the one p points to
PtrDiffAfter(b, p) == p - b.p * Stride + 1

\* (p) - (v): the index of the element p points to
PtrDiff(b, p) == p - b.p * Stride

\* mutant: the old block is never given back
LiveAfterReallocLeak(old, new) == live \cup {new}

\* the allocator after a successful VEC_REALLOC(old) that returned new
LiveAfterRealloc(old, new) == (live \ {old}) \cup {new}
BadRealloc(old) == old # NULL /\ old \notin live

\* the state after an operation that ended with vector b2
Commit(b2) ==
  /\ v' = b2.p
  /\ hlen' = b2.len
  /\ hcap' = b2.cap
  /\ data' = b2.data

\* an operation that called vec_realloc once with outcome r
Realloced(r) ==
  /\ call' = "realloc"
  /\ aborted' = ~r.ok
  /\ live' = IF r.ok THEN LiveAfterRealloc(v, r.b.p) ELSE live
  /\ badfree' = (badfree \/ (r.ok /\ BadRealloc(v)))

\* an operation that called no allocator primitive
NoCall ==
  /\ call' = "none"
  /\ UNCHANGED <<live, badfree, aborted>>

\* the program is running: it has not been stopped by VEC_ASSERT, has not
\* released the vector, and no access has left the block (after which the
\* behaviour of the program is undefined and nothing more is modelled)
Running == ~aborted /\ ~released /\ ~oob

\* the vector variable set to NULL, nothing allocated
InitVec ==
  /\ v = NULL /\ hlen = 0 /\ hcap = 0 /\ data = NoSlots
  /\ live = {} /\ badfree = FALSE /\ aborted = FALSE /\ released = FALSE
  /\ oob = FALSE
  /\ op = "none" /\ argi = 0 /\ argx = 0 /\ call = "none" /\ mark = <<>>
  /\ npush = 0 /\ npop = 0 /\ nrealloc = 0

Init ==
  /\ InitVec
  /\ lpc = "idle" /\ lcur = 0 /\ lreq = 0 /\ lout = 0

Observe(name, i, x) == op' = name /\ argi' = i /\ argx' = x

\* #define vec_init(v, cap)  do{ vec_grow((v), (cap)); }while(0)
vec_init(c) ==
  /\ Running
  /\ \E r \in vec_grow(Vec, c) :
       /\ Commit(r.b)
       /\ Realloced(r)
  /\ UNCHANGED <<released, oob>>
  /\ Observe("init", c, 0)
  /\ mark' = <<>>

\* mutant: vec_push grows on every call, as vec_ins does
NeedGrowAlways(Vcap, Vlen) == TRUE

\* if ((Vcap == 0) || (Vcap <= Vlen)) { vec_grow((v), Vcap+1); }
NeedGrow(Vcap, Vlen) == (Vcap = 0) \/ (Vcap <= Vlen)

\* #define vec_push(v, x)
vec_push(x) ==
  /\ Running
  /\ vec_len(Vec) < MaxLen
  /\ LET Vcap == vec_cap(Vec)
         Vlen == vec_len(Vec)
     IN IF NeedGrow(Vcap, Vlen)
          THEN \E r \in vec_grow(Vec, Vcap + 1) :
                 /\ Realloced(r)
                 /\ IF r.ok
                      THEN /\ Commit(vec_set_len(Store(r.b, Vlen, x), Vlen + 1))
                           /\ oob' = (oob \/ ~InBlock(r.b, Vlen))
                      ELSE /\ Commit(r.b)
                           /\ oob' = oob
          ELSE /\ NoCall
               /\ Commit(vec_set_len(Store(Vec, Vlen, x), Vlen + 1))
               /\ oob' = (oob \/ ~InBlock(Vec, Vlen))
  /\ UNCHANGED released
  /\ Observe("push", 0, x)
  /\ mark' = mark

\* #define vec_pop(v)  do{ vec_set_len((v), vec_len(v) - 1); }while(0)
\* issued only on a vector of length >= 1
vec_pop ==
  /\ Running
  /\ vec_len(Vec) >= 1
  /\ Commit(vec_set_len(Vec, vec_len(Vec) - 1))
  /\ NoCall
  /\ UNCHANGED <<released, oob>>
  /\ Observe("pop", 0, 0)
  /\ mark' = <<>>

\* the body of vec_ins(v, i, x); issued only with i <= length; a is the
\* argument the caller gave (the index, or the pointer of vec_insp)
InsBody(name, a, i, x) ==
  /\ LET Vidx == i
         Vlen == vec_len(Vec)
     IN \E r \in vec_grow(Vec, Vlen + 1) :
          /\ Realloced(r)
          /\ IF r.ok
               THEN /\ \E m \in MemMove(r.b, Vidx + 1, Vidx, Vlen - Vidx) :
                         Commit(Store(vec_set_len(m, Vlen + 1), Vidx, x))
                    /\ oob' = (\/ oob
                               \/ MoveOutside(r.b, Vidx + 1, Vidx, Vlen - Vidx)
                               \/ ~InBlock(r.b, Vidx))
               ELSE /\ Commit(r.b)
                    /\ oob' = oob
  /\ UNCHANGED released
  /\ Observe(name, a, x)
  /\ mark' = <<>>

\* an operation that found nothing to do
Nothing(name, i, x) ==
  /\ UNCHANGED <<v, hlen, hcap, data, released, oob>>
  /\ NoCall
  /\ Observe(name, i, x)
  /\ mark' = <<>>

\* #define vec_ins(v, i, x)
vec_ins(i, x) ==
  /\ Running
  /\ vec_len(Vec) < MaxLen
  /\ i <= vec_len(Vec)
  /\ InsBody("ins", i, i, x)

\* #define vec_insp(v, p, x)   if (v && p) { vec_ins((v), ((p) - (v)), (x)); }
vec_insp(p, x) ==
  /\ Running
  /\ vec_len(Vec) < MaxLen
  /\ v = NULL \/ p = NullPtr \/ PtrDiff(Vec, p) \in 0..vec_len(Vec)
  /\ IF v # NULL /\ p # NullPtr
       THEN InsBody("insp", p, PtrDiff(Vec, p), x)
       ELSE Nothing("insp", p, x)

\* mutant: the index one past the last element is taken for an element
DelInRangeIncl(Vidx, Vlen) == Vidx <= Vlen

\* if (Vidx < Vlen) { ... }
DelInRange(Vidx, Vlen) == Vidx < Vlen

\* the body of vec_del(v, i)
DelBody(name, a, i) ==
  IF v # NULL
    THEN LET Vidx == i
             Vlen == vec_len(Vec)
         IN IF DelInRange(Vidx, Vlen)
              THEN /\ \E m \in MemMove(vec_set_len(Vec, Vlen - 1),
                                       Vidx, Vidx + 1, Vlen - Vidx - 1) :
                        Commit(m)
                   /\ oob' = (oob \/ MoveOutside(Vec, Vidx, Vidx + 1,
                                                 Vlen - Vidx - 1))
                   /\ NoCall
                   /\ UNCHANGED released
                   /\ Observe(name, a, 0)
                   /\ mark' = <<>>
              ELSE Nothing(name, a, 0)
    ELSE Nothing(name, a, 0)

\* #define vec_del(v, i)
vec_del(i) ==
  /\ Running
  /\ DelBody("del", i, i)

\* #define vec_delp(v, p)   if (v && p) { vec_del((v), ((p) - (v))); }
vec_delp(p) ==
  /\ Running
  /\ v = NULL \/ p = NullPtr \/ PtrDiff(Vec, p) \in 0..vec_len(Vec)
  /\ IF v # NULL /\ p # NullPtr
       THEN DelBody("delp", p, PtrDiff(Vec, p))
       ELSE Nothing("delp", p, 0)

\* #define vec_trim(v)
vec_trim ==
  /\ Running
  /\ IF v # NULL
       THEN LET Vlen == vec_len(Vec)
            IN IF vec_cap(Vec) > Vlen
                 THEN /\ \E r \in vec_realloc(Vec, Vlen, Vlen) :
                           /\ Commit(r.b)
                           /\ Realloced(r)
                      /\ UNCHANGED <<released, oob>>
                      /\ Observe("trim", 0, 0)
                      /\ mark' = <<>>
                 ELSE Nothing("trim", 0, 0)
       ELSE Nothing("trim", 0, 0)

\* #define vec_clear(v)  do{ if (v) { vec_set_len(v, 0); } }while(0)
vec_clear ==
  /\ Running
  /\ IF v # NULL
       THEN /\ Commit(vec_set_len(Vec, 0))
            /\ NoCall
            /\ UNCHANGED <<released, oob>>
            /\ Observe("clear", 0, 0)
            /\ mark' = <<hcap, v>>
       ELSE Nothing("clear", 0, 0)

\* #define vec_free(v)   if (v) { size_t *Vp = &((size_t*)(v))[-2]; VEC_FREE(Vp); }
\* the caller's variable keeps its value; nothing is issued on it afterwards
vec_free ==
  /\ Running
  /\ released' = TRUE
  /\ IF v # NULL
       THEN /\ call' = "free"
            /\ live' = live \ {v}
            /\ badfree' = (badfree \/ v \notin live)
       ELSE /\ call' = "none"
            /\ UNCHANGED <<live, badfree>>
  /\ UNCHANGED <<v, hlen, hcap, data, aborted, oob>>
  /\ Observe("free", 0, 0)
  /\ mark' = <<>>

\* ------------------------------------------------------------ the program
Idx  == 0..MaxLen
\* the pointers handed to vec_insp / vec_delp: null, or v + k
Ptrs == {NullPtr} \cup {ElemAddr(Vec, k) : k \in Idx}

VecInit  == \E c \in 0..MaxInitCap : vec_init(c) /\ UNCHANGED <<count, loop>>
Push     == \E x \in Values : vec_push(x) /\ UNCHANGED <<count, loop>>
Pop      == vec_pop /\ UNCHANGED <<count, loop>>
Ins      == \E i \in Idx, x \in Values : vec_ins(i, x) /\ UNCHANGED <<count, loop>>
InsP     == \E p \in Ptrs, x \in Values : vec_insp(p, x) /\ UNCHANGED <<count, loop>>
Del      == \E i \in Idx : vec_del(i) /\ UNCHANGED <<count, loop>>
DelP     == \E p \in Ptrs : vec_delp(p) /\ UNCHANGED <<count, loop>>
Trim     == vec_trim /\ UNCHANGED <<count, loop>>
Clear    == vec_clear /\ UNCHANGED <<count, loop>>
Free     == vec_free /\ UNCHANGED <<count, loop>>

Next == \/ VecInit \/ Push \/ Pop \/ Ins \/ InsP \/ Del \/ DelP
        \/ Trim \/ Clear \/ Free

Spec == Init /\ [][Next]_vars

\* ------------------------------------------------- the push / pop harness
\* a test that starts from the null handle, issues only vec_push and
\* vec_pop, and counts its pushes, its pops and the VEC_REALLOC calls
Counted(dpush, dpop) ==
  /\ npush' = npush + dpush
  /\ npop' = npop + dpop
  /\ nrealloc' = nrealloc + (IF call' = "realloc" THEN 1 ELSE 0)
  /\ UNCHANGED loop

PushCounted == /\ npush < MaxPush
               /\ \E x \in Values : vec_push(x) /\ Counted(1, 0)
PopCounted  == vec_pop /\ Counted(0, 1)

NextPushPop == PushCounted \/ PopCounted

SpecPushPop == Init /\ [][NextPushPop]_vars

\* ------------------------------------------- the loop of vec_new_cap
\* size_t arithmetic: WordBits-bit unsigned words, products taken modulo
\* 2^WordBits
WordSize == 2 ^ WordBits
Words    == 0..(WordSize - 1)

\* vec_grow calls vec_new_cap(&newcap, curcap, reqcap) when curcap < reqcap
InitNewCap ==
  /\ InitVec
  /\ lpc = "call"
  /\ lcur \in Words /\ lreq \in Words /\ lcur < lreq
  /\ lout = lreq

\* *(out) = (cur ? cur : 1)
NewCapEnter ==
  /\ lpc = "call"
  /\ lout' = (IF lcur # 0 THEN lcur ELSE 1)
  /\ lpc' = "test"
  /\ UNCHANGED <<prog, obs, count, lcur, lreq>>

\* *(out) < req holds: the (empty) body is run
NewCapContinue ==
  /\ lpc = "test"
  /\ lout < lreq
  /\ lpc' = "step"
  /\ UNCHANGED <<prog, obs, count, lcur, lreq, lout>>

\* *(out) *= 2
NewCapDouble ==
  /\ lpc = "step"
  /\ lout' = (lout * 2) % WordSize
  /\ lpc' = "test"
  /\ UNCHANGED <<prog, obs, count, lcur, lreq>>

\* *(out) < req fails: the loop is left
NewCapExit ==
  /\ lpc = "test"
  /\ ~(lout < lreq)
  /\ lpc' = "done"
  /\ UNCHANGED <<prog, obs, count, lcur, lreq, lout>>

NextNewCap == NewCapEnter \/ NewCapContinue \/ NewCapDouble \/ NewCapExit

\* the loop is sequential code: it takes its next step whenever it has one
SpecNewCap == InitNewCap /\ [][NextNewCap]_vars /\ WF_vars(NextNewCap)

\* ------------------------------------------------------------- properties
\* the data-model invariant of a buffer: length <= capacity
WellFormed(b) == vec_len(b) <= vec_cap(b)

\* C1: in every state reached from the null handle by the public mutating
\* operations (vec_init with any cap included), with every allocation
\* succeeding, length <= capacity.
CexC1 == Running => vec_len(Vec) <= vec_cap(Vec)

\* C2: vec_push on a buffer (length <= capacity, null included) appends:
\* the length grows by one, slot [old length] holds the value pushed and the
\* slots below it hold what they held, whether or not the block moved.
ThmC2 ==
  [][(op' = "push" /\ ~aborted' /\ WellFormed(Vec)) =>
       LET n == vec_len(Vec)
       IN /\ ~oob'
          /\ vec_len(Vec') = n + 1
          /\ n \in DOMAIN data'
          /\ data'[n] = argx'
          /\ \A j \in 0..(n - 1) : data'[j] = data[j]]_vars

\* a push that reallocated a vector of two elements
WitC2 == op = "push" /\ call = "realloc" /\ ~aborted /\ ~oob /\ hlen = 3

\* C3: vec_ins(v, i, x) on a buffer (length <= capacity, null included)
\* with i <= length gives length + 1, slot [i] = x, slots below i unchanged
\* and every old slot j >= i now at j + 1.
ThmC3 ==
  [][(op' = "ins" /\ ~aborted' /\ WellFormed(Vec)) =>
       LET n == vec_len(Vec)
           i == argi'
       IN /\ ~oob'
          /\ vec_len(Vec') = n + 1
          /\ 0..n \subseteq DOMAIN data'
          /\ data'[i] = argx'
          /\ \A j \in 0..(i - 1) : data'[j] = data[j]
          /\ \A j \in i..(n - 1) : data'[j + 1] = data[j]]_vars

\* an insertion at index 1 into a vector of two elements
WitC3 == op = "ins" /\ argi = 1 /\ ~aborted /\ ~oob /\ hlen = 3

\* C4: vec_del(v, i) on a non-null buffer (length <= capacity) with
\* i < length takes exactly one element out: length - 1, slots below i
\* unchanged, every old slot j > i now at j - 1, capacity and handle
\* unchanged.
ThmC4 ==
  [][(op' = "del" /\ v # NULL /\ argi' < vec_len(Vec) /\ WellFormed(Vec)) =>
       LET n == vec_len(Vec)
           i == argi'
       IN /\ ~oob'
          /\ vec_len(Vec') = n - 1
          /\ \A j \in 0..(i - 1) : data'[j] = data[j]
          /\ \A j \in (i + 1)..(n - 1) : data'[j - 1] = data[j]
          /\ vec_cap(Vec') = vec_cap(Vec)
          /\ v' = v]_vars

\* a removal at index 0 from a vector of three elements
WitC4 == op = "del" /\ argi = 0 /\ hlen = 2 /\ hcap = 4 /\ ~oob

\* C5: after any sequence of pushes and pops from the null handle (pop
\* only at length >= 1) the length is the pushes minus the pops.
InvC5 == ~aborted => vec_len(Vec) = npush - npop

\* three pushes and two pops, then two more pushes
WitC5 == npush = 5 /\ npop = 2 /\ ~aborted /\ hlen = 3

\* 2^k, and the k and 2^k of the smallest power of two >= n
RECURSIVE Pow2(_)
Pow2(k) == IF k = 0 THEN 1 ELSE 2 * Pow2(k - 1)
Log2Ceil(n) == CHOOSE k \in 0..n : Pow2(k) >= n /\ (k = 0 \/ Pow2(k - 1) < n)
Pow2Ceil(n) == Pow2(Log2Ceil(n))

ThmC7 ==
  [][(op' = "trim" /\ ~aborted') =>
       /\ vec_len(Vec') = vec_len(Vec)
       /\ \A j \in 0..(vec_len(Vec) - 1) :
            j \in DOMAIN data => (j \in DOMAIN data' /\ data'[j] = data[j])
       /\ (v # NULL /\ vec_cap(Vec) > vec_len(Vec)) =>
            (vec_cap(Vec') = vec_len(Vec) /\ call' = "realloc")
       /\ (v = NULL \/ vec_cap(Vec) = vec_len(Vec)) =>
            (call' = "none" /\ UNCHANGED <<v, hlen, hcap, data, live>>)]_vars

\* a trim that cut a capacity down to a length of two
WitC7 == op = "trim" /\ call = "realloc" /\ ~aborted /\ hlen = 2 /\ hcap = 2

\* C8: on a buffer (length <= capacity) vec_push calls VEC_REALLOC only
\* when capacity = length or the handle is null; so after vec_clear on a
\* vector of capacity C the next k <= C pushes call no allocator
\* primitive and leave the capacity C and the handle as they were.
ThmC8 ==
  /\ [][(op' = "push" /\ call' = "realloc" /\ WellFormed(Vec)) =>
          (v = NULL \/ vec_cap(Vec) = vec_len(Vec))]_vars
  /\ []((mark # <<>> /\ ~aborted /\ vec_len(Vec) <= mark[1]) =>
          /\ vec_cap(Vec) = mark[1]
          /\ v = mark[2]
          /\ op = "push" => call = "none")

\* the third push after a clear of a vector of capacity 4
WitC8 == mark # <<>> /\ mark[1] = 4 /\ op = "push" /\ hlen = 3

\* C9: with the instrumented allocator, before vec_free exactly the block
\* of a non-null handle is live and none for a null handle; after vec_free
\* no block is live; no block is freed twice; vec_free on a null handle
\* calls no allocator primitive.  (Stated for runs in which every access
\* stayed inside the block.)
InvC9 ==
  ~oob =>
    /\ ~released => live = (IF v = NULL THEN {} ELSE {v})
    /\ released => live = {}
    /\ ~badfree
    /\ (op = "free" /\ v = NULL) => call = "none"
    /\ (op = "free" /\ v # NULL) => call = "free"

\* a vector of three elements, built with an insertion, has been released
WitC9 == released /\ v # NULL /\ hlen = 3 /\ hcap = 3 /\ live = {}

\* C10 as stated: in every reachable state capacity = 0 iff the handle is
\* null.
CexC10 == Running => (vec_cap(Vec) = 0 <=> v = NULL)

\* C10 amended: a null handle has capacity 0; a non-null handle with
\* capacity 0 comes about only by vec_trim at length 0 or vec_init with
\* cap 0, and every other operation leaves it as it is or makes the
\* capacity >= 1.
ZeroBlock == v # NULL /\ vec_cap(Vec) = 0

ThmC10 ==
  /\ [](v = NULL => vec_cap(Vec) = 0)
  /\ [][(ZeroBlock' /\ ~ZeroBlock) =>
          \/ op' = "trim" /\ vec_len(Vec') = 0
          \/ op' = "init" /\ argi' = 0]_vars

\* a trim of an emptied vector left a block of capacity 0
WitC10 == op = "trim" /\ call = "realloc" /\ ~aborted /\ v # NULL /\ hcap = 0

\* C11: when VEC_REALLOC returns null in a growth or a trim, VEC_ASSERT
\* stops the process before v is reassigned and before a header word is
\* written: the handle, the header, the slots and the old block are as they
\* were.  An operation whose VEC_REALLOC succeeded ends with the handle on
\* the one live block and a capacity word equal to the slots of that block.
ThmC11 ==
  [][call' = "realloc" =>
       IF aborted'
         THEN UNCHANGED <<v, hlen, hcap, data, live>>
         ELSE /\ v' # NULL
              /\ live' = {v'}
              /\ hcap' = Slots(Vec')
              /\ hlen' = (IF op' \in {"push", "ins", "insp"}
                            THEN vec_len(Vec) + 1 ELSE vec_len(Vec))]_vars

\* the reallocation of a trim of two elements in four slots failed
WitC11 == aborted /\ op = "trim" /\ call = "realloc" /\ hlen = 2 /\ hcap = 4

\* C12: vec_grow, reached through vec_init(v, cap) and vec_ins (which asks
\* for length + 1), does nothing when the capacity is already >= the
\* request: no VEC_REALLOC call, the handle and the capacity as they were
\* and, for vec_init, the length and the slots as they were.
CexC12 ==
  [][(\/ op' = "init" /\ vec_cap(Vec) >= argi'
      \/ op' = "ins" /\ vec_cap(Vec) >= vec_len(Vec) + 1) =>
       /\ call' = "none"
       /\ v' = v
       /\ vec_cap(Vec') = vec_cap(Vec)
       /\ op' = "init" => UNCHANGED <<hlen, data>>]_vars

\* the smallest base * 2^k (k >= 0) that is >= req
SmallestScaled(base, req) ==
  LET S == {base * Pow2(k) : k \in 0..req}
  IN CHOOSE c \in S : c >= req /\ \A d \in S : d >= req => c <= d

Max(a, b) == IF a >= b THEN a ELSE b

\* the request a successful vec_grow of the step was made with
GrowRequest ==
  IF op' = "init" THEN argi'
  ELSE IF op' = "push" THEN vec_cap(Vec) + 1
  ELSE vec_len(Vec) + 1

\* a step whose vec_grow found capacity < request and reallocated
GrewStep ==
  /\ op' \in {"init", "push", "ins", "insp"}
  /\ call' = "realloc" /\ ~aborted'
  /\ vec_cap(Vec) < GrowRequest

\* vec_init leaves the length and the elements of the block as they were
InitKeeps ==
  op' = "init" =>
    /\ vec_len(Vec') = vec_len(Vec)
    /\ \A j \in 0..(vec_len(Vec) - 1) :
         j \in DOMAIN data => (j \in DOMAIN data' /\ data'[j] = data[j])

\* C13 as stated: a vec_grow with capacity < request, the null handle
\* included, sets the capacity to the smallest max(capacity, 1) * 2^k that
\* is >= request and keeps length and elements.
CexC13 ==
  [][GrewStep =>
       /\ vec_cap(Vec') = SmallestScaled(Max(vec_cap(Vec), 1), GrowRequest)
       /\ InitKeeps]_vars

\* C13 amended: on a non-null handle with capacity < request the capacity
\* becomes the smallest max(capacity, 1) * 2^k that is >= request; on the
\* null handle it becomes exactly the request; length and elements are
\* kept.
ThmC13 ==
  [][GrewStep =>
       /\ vec_cap(Vec') =
            (IF v = NULL THEN GrowRequest
             ELSE SmallestScaled(Max(vec_cap(Vec), 1), GrowRequest))
       /\ InitKeeps]_vars

\* vec_init(v, 3) on a one-element vector of capacity 1 doubled twice
WitC13 == op = "init" /\ argi = 3 /\ ~aborted /\ hlen = 1 /\ hcap = 4

\* C14: vec_del(v, i) with i >= length, on a null handle or on a non-null
\* vector (of length 0 included), does nothing: handle, length, capacity
\* and every slot are as they were and no allocator primitive is called.
ThmC14 ==
  [][(op' = "del" /\ argi' >= vec_len(Vec)) =>
       /\ UNCHANGED <<v, hlen, hcap, data, live, badfree, aborted, oob>>
       /\ call' = "none"]_vars

\* vec_del(v, 3) was issued on a vector of two elements
WitC14 == op = "del" /\ argi = 3 /\ v # NULL /\ hlen = 2 /\ call = "none"

\* what vec_ins(v, k, x) makes of the vector: length + 1, x in slot k, the
\* slots below k as they were, the old slots from k on one place up, and
\* the capacity vec_grow(v, length + 1) leaves
InsertedAt(k, x) ==
  LET n == vec_len(Vec)
      c == vec_cap(Vec)
  IN /\ ~oob'
     /\ vec_len(Vec') = n + 1
     /\ vec_cap(Vec') = (IF v # NULL /\ c < n + 1
                           THEN SmallestScaled(Max(c, 1), n + 1)
                           ELSE n + 1)
     /\ 0..n \subseteq DOMAIN data'
     /\ data'[k] = x
     /\ \A j \in 0..(k - 1) : data'[j] = data[j]
     /\ \A j \in k..(n - 1) : data'[j + 1] = data[j]

\* the element index the pointer argument of the step points to
PointedIndex == CHOOSE k \in Idx : ElemAddr(Vec, k) = argi'

\* C15: vec_insp(v, p, x) changes nothing and calls no allocator primitive
\* when v or p is null; otherwise, for p = v + k with k <= length, it
\* leaves the length, capacity and elements that vec_ins(v, k, x) leaves
\* (buffers with length <= capacity).
ThmC15 ==
  /\ [][op' = "insp" =>
          IF v = NULL \/ argi' = NullPtr
            THEN /\ UNCHANGED <<v, hlen, hcap, data, live, badfree, aborted, oob>>
                 /\ call' = "none"
            ELSE (WellFormed(Vec) /\ ~aborted') =>
                   InsertedAt(PointedIndex, argx')]_vars
  /\ [][(op' = "ins" /\ WellFormed(Vec) /\ ~aborted') =>
          InsertedAt(argi', argx')]_vars

\* vec_insp with a pointer to element 1 of a vector of two elements
WitC15 ==
  /\ op = "insp" /\ call = "realloc" /\ ~aborted /\ ~oob
  /\ argi >= Stride /\ argi % Stride = 1
  /\ hlen = 3

\* C16: vec_pop (length >= 1) writes length - 1 and vec_clear writes 0 to
\* the length word and nothing else: the capacity, the handle and every
\* slot of the block, the popped or cleared ones included, are as they
\* were and no allocator primitive is called; vec_clear on a null handle
\* changes nothing.
ThmC16 ==
  /\ [][op' = "pop" =>
          /\ hlen' = hlen - 1
          /\ UNCHANGED <<v, hcap, data, live, badfree, aborted, oob>>
          /\ call' = "none"]_vars
  /\ [][op' = "clear" =>
          /\ vec_len(Vec') = 0
          /\ hlen' = (IF v = NULL THEN hlen ELSE 0)
          /\ UNCHANGED <<v, hcap, data, live, badfree, aborted, oob>>
          /\ call' = "none"]_vars

\* a pop from three elements in four slots; the popped slot still holds 2
WitC16 == op = "pop" /\ hlen = 2 /\ hcap = 4 /\ data[2] = 2

\* C17: in every state reached by the public operations used within their
\* preconditions (pop at length >= 1, insert index <= length) every slot
\* written by vec_push or vec_ins and every slot read or written by the
\* memmove of vec_ins and vec_del lies inside the live block.
CexC17 == ~oob

\* C18: vec_push, vec_pop, vec_ins, vec_insp, vec_del, vec_delp and
\* vec_clear never leave a capacity smaller than the one they found.
CexC18 ==
  [][(op' \in {"push", "pop", "ins", "insp", "del", "delp", "clear"}) =>
       vec_cap(Vec') >= vec_cap(Vec)]_vars

\* C19: with capacities in WordBits-bit unsigned words the doubling loop
\* of vec_new_cap terminates for every current capacity and every request
\* of the word, with a new capacity >= request.
CexC19 == <>(lpc = "done" /\ lout >= lreq)
====
